---- MODULE Spec2Model ----
(***************************************************************************)
(* pgacloud: a command line tool that provisions managed PostgreSQL        *)
(* instances (AWS RDS, Azure Database for PostgreSQL, a Starlight stub).   *)
(*                                                                         *)
(* One behaviour of the model is one run of the Python process.  A run     *)
(* enters either execute_command (pgacloud.py) with a provider and command *)
(* name, or one operation of a provider the way command(args) enters it.   *)
(* Each helper of an operation is one step.  Every provider SDK call, HTTP *)
(* lookup and environment read is an input drawn from a small set of       *)
(* outcomes; an exception that no handler catches ends the process as the  *)
(* interpreter ends it (traceback on standard error, exit status 1).  The  *)
(* process state is what an observer of the process sees: the two output   *)
(* streams, the exit code, and the provider API calls that were issued.    *)
(*                                                                         *)
(* Python values are records [py |-> <type>, v |-> <value>]; text is a     *)
(* sequence of string tokens, so that a formatted message keeps the parts  *)
(* it was built from.                                                      *)
(***************************************************************************)
EXTENDS Integers, Sequences, FiniteSets, TLC

(* ---- bounds ---------------------------------------------------------- *)

\* the wait loop of _create_rds_instance is cut after this many polls
MaxPolls == 3

(* ---- program constants ----------------------------------------------- *)

SleepSeconds == 30
PgPort == 5432

None == "None"
Loopback == "127.0.0.1"
PrimaryUrl == "https://ident.me"
SecondaryUrl == "https://ifconfig.me/ip"

\* instance names given with --name
Names == {"db1"}

\* answers of the two IP echo services
PrimaryAnswers == {"203.0.113.7"}
SecondaryAnswers == {"198.51.100.9"}

\* DBInstanceStatus values a poll can report
TransientStatuses == {"creating", "backing-up"}
Statuses == TransientStatuses \cup {"available", "failed"}

(* ---- Python values ---------------------------------------------------- *)

Str(tokens) == [py |-> "str", v |-> tokens]
PyInt(n) == [py |-> "int", v |-> n]
PyList(items) == [py |-> "list", v |-> items]
Exc(type, tokens) == [py |-> type, v |-> tokens]

\* the types json.dumps serialises without calling default=
JsonNative == {"str", "int", "list", "dict"}

\* str(x) / '{}'.format(x)
PyStr(x) == IF x.py = "str" THEN x ELSE Str(x.v)

\* str.replace('.', '-') on the addresses the probe can return
ReplaceDots(ip) ==
    CASE ip = "127.0.0.1" -> "127-0-0-1"
      [] ip = "203.0.113.7" -> "203-0-113-7"
      [] ip = "198.51.100.9" -> "198-51-100-9"
      [] OTHER -> ip

\* utils/misc.py get_random_id: one of the 62^10 ids
RandomIds == {"k3Xp09QzLm"}

EmptyDict == [k \in {} |-> None]

DictSet(d, key, value) ==
    [k \in DOMAIN d \cup {key} |-> IF k = key THEN value ELSE d[k]]

(* ---- state ------------------------------------------------------------ *)

VARIABLES
    args,           \* the parsed arguments: provider, command, debug, name
    environ,        \* names of the environment variables that are set
    entry,          \* "main", "execute_command" or "operation": what runs
    pc,             \* position of the process
    proc,           \* stdout, stderr, exit code, uncaught exception
    clients,        \* self._clients of the provider instance
    constructed,    \* every SDK client object built so far, in order
    credentials,    \* AzureProvider._credentials
    subscription_id,\* AzureProvider._subscription_id
    security_group, \* the GroupId returned by step 1 of deploy_cluster
    calls,          \* provider API calls issued so far, in order
    lookups,        \* HTTP lookups of get_my_ip so far, in order
    status,         \* DBInstanceStatus of the last poll
    polls,          \* number of describe_db_instances polls
    slept,          \* seconds spent in time.sleep
    data            \* the dict the operation assembles for output

vars == <<args, environ, entry, pc, proc, clients, constructed,
          credentials, subscription_id, security_group, calls, lookups,
          status, polls, slept, data>>

(* ---- utils/io.py ------------------------------------------------------ *)

\* debug(args, message) with args.debug = dbg, on process state p
debug(p, dbg, message) ==
    IF ~dbg
    THEN p
    ELSE [p EXCEPT !.stderr =
            Append(@, [kind |-> "debug", ts |-> "HH:MM:SS",
                       text |-> PyStr(message).v])]

\* json.dumps(data, indent=4, default=str)
dumps(d) ==
    [k \in DOMAIN d |-> IF d[k].py \in JsonNative THEN d[k] ELSE PyStr(d[k])]

\* output(data): one print of one JSON document
output(p, d) ==
    [p EXCEPT !.stdout = Append(@, [fmt |-> "json", doc |-> dumps(d)])]

\* sys.exit(code)
sys_exit(p, code) == [p EXCEPT !.exited = TRUE, !.exit_code = code]

\* error() that prints the error document and returns to its caller
error_returns(p, dbg, message) ==
    output(debug(p, dbg, message), [error |-> message])

\* error(args, message): debug, output {'error': message}, sys.exit(1)
error(p, dbg, message) ==
    sys_exit(output(debug(p, dbg, message), [error |-> message]), 1)

(* ---- the Python runtime ----------------------------------------------- *)

\* print(text) of something that is not JSON
print(p, tokens) ==
    [p EXCEPT !.stdout = Append(@, [fmt |-> "text", doc |-> tokens])]

\* an exception no handler catches: traceback on stderr, exit status 1
Uncaught(p, e) ==
    [p EXCEPT !.stderr = Append(@, [kind |-> "traceback", ts |-> None,
                                    text |-> <<e.py>> \o e.v]),
              !.uncaught = e.py,
              !.exited = TRUE,
              !.exit_code = 1]

\* the command returned to main(), which returns: exit status 0
Return(p) == [p EXCEPT !.exited = TRUE, !.exit_code = 0]

\* an exception raised by an SDK call
SdkError(api) == Exc("Exception", <<api, "failed">>)

(* ---- utils/misc.py ---------------------------------------------------- *)

\* outcome of one urlopen(...).read().decode(): "fail" or the body
LookupFailed == "fail"

\* one urllib.request.urlopen(url).read().decode('utf8') and its outcome
UrlOpen(url, outcome) == [url |-> url, outcome |-> outcome]

\* get_my_ip() without the fallback: loopback as soon as the primary fails
get_my_ip_no_fallback(primary, secondary) ==
    IF primary # LookupFailed
    THEN [ip |-> primary, log |-> <<UrlOpen(PrimaryUrl, primary)>>]
    ELSE [ip |-> Loopback, log |-> <<UrlOpen(PrimaryUrl, primary)>>]

\* get_my_ip(): primary / secondary are the outcomes the two lookups would
\* have; the result is the address and the lookups actually performed
get_my_ip(primary, secondary) ==
    IF primary # LookupFailed
    THEN [ip |-> primary, log |-> <<UrlOpen(PrimaryUrl, primary)>>]
    ELSE IF secondary # LookupFailed
         THEN [ip |-> secondary,
               log |-> <<UrlOpen(PrimaryUrl, primary),
                         UrlOpen(SecondaryUrl, secondary)>>]
         ELSE [ip |-> Loopback,
               log |-> <<UrlOpen(PrimaryUrl, primary),
                         UrlOpen(SecondaryUrl, secondary)>>]

PrimaryOutcomes == PrimaryAnswers \cup {LookupFailed}
SecondaryOutcomes == SecondaryAnswers \cup {LookupFailed}

(* ---- providers: attributes, command tables, CLI sub-parsers ----------- *)

Providers == {"azure", "rds", "starlight"}

\* attributes of an instance of each provider class (dir(self) also lists
\* the __dunder__ attributes of object, all of which start with '_')
AbsProviderAttrs == {"parser", "_init_args", "_commands", "help"}

AzureProviderAttrs ==
    AbsProviderAttrs \cup
    {"_clients", "_credentials", "_subscription_id", "_default_region",
     "init_args", "_get_azure_client", "_create_resource_group",
     "_create_azure_instance", "_create_firewall_rule",
     "_delete_azure_instance", "cmd_create_instance", "cmd_delete_instance"}

RdsProviderAttrs ==
    AbsProviderAttrs \cup
    {"_clients", "_access_key", "_secret_key", "_default_region",
     "_get_aws_client", "_create_security_group", "_add_ingress_rule",
     "_get_security_group", "_create_rds_instance", "_get_clusters",
     "_get_vpcs", "_get_instance_types", "deploy_cluster", "get_clusters",
     "get_vpcs", "get_instance_types"}

StarlightProviderAttrs == AbsProviderAttrs \cup {"deploy_cluster", "list_types"}

Attrs(provider) ==
    CASE provider = "azure" -> AzureProviderAttrs
      [] provider = "rds" -> RdsProviderAttrs
      [] provider = "starlight" -> StarlightProviderAttrs
      [] OTHER -> {}

\* attr.startswith('_')
StartsWithUnderscore(attr) ==
    attr \in {"_init_args", "_commands", "_clients", "_credentials",
              "_subscription_id", "_default_region", "_access_key",
              "_secret_key", "_get_azure_client", "_create_resource_group",
              "_create_azure_instance", "_create_firewall_rule",
              "_delete_azure_instance", "_get_aws_client",
              "_create_security_group", "_add_ingress_rule",
              "_get_security_group", "_create_rds_instance", "_get_clusters",
              "_get_vpcs", "_get_instance_types"}

\* AbsProvider._commands: the keys of the table it builds
_commands(provider) == {a \in Attrs(provider) : ~StartsWithUnderscore(a)}

\* whether getattr(self, attr) of a table entry can be called
Callable(attr) == attr # "parser"

\* the command names each provider declares with add_parser
CliCommands(provider) ==
    CASE provider = "azure" -> {"create-instance", "delete-instance"}
      [] provider = "rds" -> {"deploy-cluster", "get-clusters", "get-vpcs",
                              "get-instance-types"}
      [] provider = "starlight" -> {"deploy-cluster", "list-types"}
      [] OTHER -> {}

AllCliCommands == UNION {CliCommands(p) : p \in Providers}

\* command.replace('-', '_')
ReplaceDashes(command) ==
    CASE command = "create-instance" -> "create_instance"
      [] command = "delete-instance" -> "delete_instance"
      [] command = "deploy-cluster" -> "deploy_cluster"
      [] command = "get-clusters" -> "get_clusters"
      [] command = "get-vpcs" -> "get_vpcs"
      [] command = "get-instance-types" -> "get_instance_types"
      [] command = "list-types" -> "list_types"
      [] OTHER -> command

\* the user commands (operations) each provider class defines
Operations(provider) ==
    CASE provider = "azure" -> {"cmd_create_instance", "cmd_delete_instance"}
      [] provider = "rds" -> {"deploy_cluster", "get_clusters", "get_vpcs",
                              "get_instance_types"}
      [] provider = "starlight" -> {"deploy_cluster", "list_types"}
      [] OTHER -> {}

\* where the body of a called attribute begins
FirstStep(provider, attr) ==
    CASE provider = "rds" /\ attr = "deploy_cluster"
            -> "rds._create_security_group"
      [] provider = "azure" /\ attr = "cmd_create_instance"
            -> "azure._create_resource_group"
      [] OTHER -> provider \o "." \o attr

(* ---- initial states ---------------------------------------------------- *)

NewProcess ==
    [stdout |-> << >>, stderr |-> << >>, exited |-> FALSE, exit_code |-> 0,
     uncaught |-> None]

Init ==
    /\ entry \in {"main", "execute_command", "operation"}
    /\ args \in
         IF entry \in {"main", "execute_command"}
         THEN {[provider |-> None, command |-> None, debug |-> d, name |-> n] :
                  d \in BOOLEAN, n \in Names}
              \cup
              [provider : Providers, command : AllCliCommands \cup {None},
               debug : BOOLEAN, name : Names]
         ELSE UNION {[provider : {p}, command : Operations(p),
                      debug : BOOLEAN, name : Names] : p \in Providers}
    /\ environ \in SUBSET {"AZURE_SUBSCRIPTION_ID"}
    /\ pc = "start"
    /\ proc = NewProcess
    /\ clients = EmptyDict
    /\ constructed = << >>
    /\ credentials = None
    /\ subscription_id = None
    /\ security_group = None
    /\ calls = << >>
    /\ lookups = << >>
    /\ status = None
    /\ polls = 0
    /\ slept = 0
    /\ data = EmptyDict

\* position after a step that leaves the process in state p
After(p, next) == IF p.exited THEN "exited" ELSE next

(* ---- pgacloud.py ------------------------------------------------------- *)

\* the orders in which load_providers can insert the provider modules
\* into the dict (os.listdir returns the files in arbitrary order)
ProviderOrders ==
    {order \in [1..Cardinality(Providers) -> Providers] :
        \A i, j \in DOMAIN order : order[i] = order[j] => i = j}

\* main() up to the return of get_args(providers): the loop calls
\* providers[provider].init_args(parsers) on each provider in dict order,
\* then parse_args() returns the arguments of the command line
get_args ==
    /\ pc = "start"
    /\ entry = "main"
    /\ \E order \in ProviderOrders :
          IF \E i \in DOMAIN order : "init_args" \notin Attrs(order[i])
          THEN /\ proc' = Uncaught(proc,
                             Exc("AttributeError", <<"init_args">>))
               /\ pc' = "exited"
          ELSE /\ proc' = proc
               /\ pc' = "main.execute_command"
    /\ UNCHANGED <<args, environ, entry, clients, constructed, credentials,
                   subscription_id, security_group, calls, lookups, status,
                   polls, slept, data>>

\* execute_command(providers, parser, args)
execute_command ==
    /\ \/ entry = "execute_command" /\ pc = "start"
       \/ entry = "main" /\ pc = "main.execute_command"
    /\ LET command == IF args.command # None
                      THEN ReplaceDashes(args.command)
                      ELSE None
           provider == args.provider
       IN /\ args' = [args EXCEPT !.command = command]
          /\ IF provider \in Providers /\ command # None
             THEN IF "commands" \notin Attrs(provider)
                  THEN /\ proc' = Uncaught(proc,
                                     Exc("AttributeError", <<"commands">>))
                       /\ pc' = "exited"
                  ELSE IF command \notin _commands(provider)
                  THEN /\ proc' = Uncaught(proc, Exc("KeyError", <<command>>))
                       /\ pc' = "exited"
                  ELSE IF ~Callable(command)
                  THEN /\ proc' = Uncaught(proc, Exc("TypeError", <<command>>))
                       /\ pc' = "exited"
                  ELSE /\ proc' = proc
                       /\ pc' = FirstStep(provider, command)
             ELSE IF provider = None
                  THEN /\ proc' = Return(print(proc, <<"usage:", "pgacloud.py">>))
                       /\ pc' = "exited"
                  ELSE IF "commands" \notin Attrs(provider)
                  THEN /\ proc' = Uncaught(proc,
                                     Exc("AttributeError", <<"commands">>))
                       /\ pc' = "exited"
                  ELSE /\ proc' = Return(print(proc, <<"usage:", "pgacloud.py",
                                                      provider>>))
                       /\ pc' = "exited"
    /\ UNCHANGED <<environ, entry, clients, constructed, credentials,
                   subscription_id, security_group, calls, lookups, status,
                   polls, slept, data>>

\* a provider operation called with the parsed arguments: command(args)
call_operation ==
    /\ pc = "start"
    /\ entry = "operation"
    /\ pc' = FirstStep(args.provider, args.command)
    /\ UNCHANGED <<args, environ, entry, proc, clients, constructed,
                   credentials, subscription_id, security_group, calls,
                   lookups, status, polls, slept, data>>

(* ---- providers/rds.py -------------------------------------------------- *)

SdkOutcomes == {"ok", "raise"}

GroupId == "sg-0123"

\* a cache that is also read under the literal key 'type': the first client
\* built is returned for every later request, whatever its type
_get_aws_client_first_cached(cl, built, type, outcome) ==
    IF "type" \in DOMAIN cl
    THEN [clients |-> cl, built |-> built, client |-> cl["type"],
          raised |-> FALSE]
    ELSE IF outcome = "raise"
         THEN [clients |-> cl, built |-> built, client |-> None,
               raised |-> TRUE]
         ELSE LET c == [type |-> type, serial |-> Len(built) + 1]
              IN [clients |-> DictSet(cl, "type", c),
                  built |-> Append(built, c), client |-> c,
                  raised |-> FALSE]

\* RdsProvider._get_aws_client(type, args) on the cache cl, with built the
\* clients constructed so far; outcome is what session.client() does if it
\* is called
_get_aws_client(cl, built, type, outcome) ==
    IF type \in DOMAIN cl
    THEN [clients |-> cl, built |-> built, client |-> cl[type],
          raised |-> FALSE]
    ELSE IF outcome = "raise"
         THEN [clients |-> cl, built |-> built, client |-> None,
               raised |-> TRUE]
         ELSE LET c == [type |-> type, serial |-> Len(built) + 1]
              IN [clients |-> DictSet(cl, "type", c),
                  built |-> Append(built, c), client |-> c,
                  raised |-> FALSE]

\* one provider API call as the provider saw it; outcome is "ok" or how
\* the call failed
ApiCall(api, client, arg, outcome) ==
    [api |-> api, client |-> client, arg |-> arg, outcome |-> outcome]

\* a handler that goes to error() without the compensating delete
DeleteSecurityGroup_skipped(log, client, group, outcome) == log

\* try: ec2.delete_security_group(GroupId=...) except: pass
DeleteSecurityGroup(log, client, group, outcome) ==
    Append(log, ApiCall("delete_security_group", client, group, outcome))

\* RdsProvider._create_security_group(args): step 1 of deploy_cluster
_create_security_group ==
    /\ pc = "rds._create_security_group"
    /\ \E co \in SdkOutcomes, primary \in PrimaryOutcomes,
          secondary \in SecondaryOutcomes, rid \in RandomIds,
          r \in SdkOutcomes :
         LET g == _get_aws_client(clients, constructed, "ec2", co)
             probe == get_my_ip(primary, secondary)
             name == <<"pgacloud", args.name, ReplaceDots(probe.ip), rid>>
             p1 == debug(proc, args.debug,
                         Str(<<"Creating security group with name:">>
                             \o name))
         IN IF g.raised
            THEN /\ proc' = Uncaught(proc, SdkError("client"))
                 /\ UNCHANGED <<clients, constructed, lookups, calls,
                                security_group>>
            ELSE /\ clients' = g.clients
                 /\ constructed' = g.built
                 /\ lookups' = lookups \o probe.log
                 /\ calls' = Append(calls,
                        ApiCall("create_security_group", g.client, name,
                                r))
                 /\ IF r = "ok"
                    THEN /\ proc' = p1
                         /\ security_group' = GroupId
                    ELSE /\ proc' = error(p1, args.debug,
                                      SdkError("create_security_group"))
                         /\ UNCHANGED security_group
    /\ pc' = After(proc', "rds._add_ingress_rule")
    /\ UNCHANGED <<args, environ, entry, credentials, subscription_id,
                   status, polls, slept, data>>

\* RdsProvider._add_ingress_rule(args, security_group): step 2
_add_ingress_rule ==
    /\ pc = "rds._add_ingress_rule"
    /\ \E co \in SdkOutcomes, primary \in PrimaryOutcomes,
          secondary \in SecondaryOutcomes, r \in SdkOutcomes :
         LET g == _get_aws_client(clients, constructed, "ec2", co)
             probe == get_my_ip(primary, secondary)
             rule == [GroupId |-> security_group, FromPort |-> PgPort,
                      ToPort |-> PgPort, CidrIp |-> <<probe.ip, "/32">>]
             p1 == debug(proc, args.debug,
                         Str(<<"Adding ingress rule for:", probe.ip, "/32">>))
         IN IF g.raised
            THEN /\ proc' = Uncaught(proc, SdkError("client"))
                 /\ UNCHANGED <<clients, constructed, lookups, calls>>
            ELSE /\ clients' = g.clients
                 /\ constructed' = g.built
                 /\ lookups' = lookups \o probe.log
                 /\ calls' = Append(calls,
                        ApiCall("authorize_security_group_ingress", g.client,
                                rule, r))
                 /\ proc' = IF r = "ok"
                            THEN p1
                            ELSE error(p1, args.debug,
                                   SdkError("authorize_security_group_ingress"))
    /\ pc' = After(proc', "rds._get_security_group")
    /\ UNCHANGED <<args, environ, entry, credentials, subscription_id,
                   security_group, status, polls, slept, data>>

\* RdsProvider._get_security_group(args, security_group)
_get_security_group ==
    /\ pc = "rds._get_security_group"
    /\ \E co \in SdkOutcomes, r \in SdkOutcomes, del \in SdkOutcomes :
         LET g == _get_aws_client(clients, constructed, "ec2", co)
             p1 == debug(proc, args.debug,
                         Str(<<"Retrieving security group configuration for:",
                               security_group>>))
             described == Append(calls,
                            ApiCall("describe_security_groups", g.client,
                                    security_group, r))
         IN IF g.raised
            THEN /\ proc' = Uncaught(proc, SdkError("client"))
                 /\ UNCHANGED <<clients, constructed, calls, data>>
            ELSE /\ clients' = g.clients
                 /\ constructed' = g.built
                 /\ IF r = "ok"
                    THEN /\ calls' = described
                         /\ proc' = p1
                         /\ data' = DictSet(data, "security_groups",
                                      PyList(<<[GroupId |-> security_group]>>))
                    ELSE /\ calls' = DeleteSecurityGroup(described, g.client,
                                       security_group, del)
                         /\ proc' = error(p1, args.debug,
                                      SdkError("describe_security_groups"))
                         /\ UNCHANGED data
    /\ pc' = After(proc', "rds._create_rds_instance")
    /\ UNCHANGED <<args, environ, entry, credentials, subscription_id,
                   security_group, lookups, status, polls, slept>>

CreateOutcomes == {"ok", "exists", "raise"}

\* RdsProvider._create_rds_instance(args, security_group) up to the end of
\* the try statement: the create call of step 3 and its two handlers
_create_rds_instance ==
    /\ pc = "rds._create_rds_instance"
    /\ \E co1 \in SdkOutcomes, co2 \in SdkOutcomes, r \in CreateOutcomes,
          del \in SdkOutcomes :
         LET g1 == _get_aws_client(clients, constructed, "ec2", co1)
             g2 == _get_aws_client(g1.clients, g1.built, "rds", co2)
             p1 == debug(proc, args.debug,
                         Str(<<"Creating RDS instance:", args.name>>))
             created == Append(calls,
                          ApiCall("create_db_instance", g2.client,
                                  [DBInstanceIdentifier |-> args.name,
                                   VpcSecurityGroupIds |-> <<security_group>>],
                                  r))
         IN IF g1.raised
            THEN /\ proc' = Uncaught(proc, SdkError("client"))
                 /\ UNCHANGED <<clients, constructed, calls>>
            ELSE IF g2.raised
            THEN /\ proc' = Uncaught(proc, SdkError("client"))
                 /\ clients' = g1.clients
                 /\ constructed' = g1.built
                 /\ UNCHANGED calls
            ELSE /\ clients' = g2.clients
                 /\ constructed' = g2.built
                 /\ IF r = "ok"
                    THEN /\ calls' = created
                         /\ proc' = p1
                    ELSE /\ calls' = DeleteSecurityGroup(created, g1.client,
                                       security_group, del)
                         /\ proc' =
                              IF r = "exists"
                              THEN error(p1, args.debug,
                                     Str(<<"RDS instance", args.name,
                                           "already exists.">>))
                              ELSE error(p1, args.debug,
                                     SdkError("create_db_instance"))
    /\ pc' = After(proc', "rds.wait")
    /\ UNCHANGED <<args, environ, entry, credentials, subscription_id,
                   security_group, lookups, status, polls, slept, data>>

\* a loop that goes on until the instance is available
Running_until_available(s) == s # "available"

\* the value of running after a poll that reported status s
Running(s) == ~(s # "creating" /\ s # "backing-up")

\* one iteration of the "Wait for completion" loop of _create_rds_instance;
\* rds is the client the function built last
wait_for_completion ==
    /\ pc = "rds.wait"
    /\ \E r \in SdkOutcomes, s \in Statuses :
         LET rds == constructed[Len(constructed)]
             running == Running(s)
         IN /\ polls < MaxPolls
            /\ s \in TransientStatuses => polls + 1 < MaxPolls
            /\ calls' = Append(calls,
                   ApiCall("describe_db_instances", rds, args.name, r))
            /\ IF r = "raise"
               THEN /\ proc' = Uncaught(proc, SdkError("describe_db_instances"))
                    /\ pc' = "exited"
                    /\ UNCHANGED <<status, polls, slept, data>>
               ELSE /\ status' = s
                    /\ polls' = polls + 1
                    /\ proc' = debug(proc, args.debug, Str(<<"Status:", s>>))
                    /\ slept' = slept + SleepSeconds
                    /\ IF running
                       THEN /\ pc' = "rds.wait"
                            /\ UNCHANGED data
                       ELSE /\ pc' = "rds.deploy_cluster"
                            /\ data' = DictSet(data, "clusters",
                                 PyList(<<[DBInstanceIdentifier |-> args.name,
                                           DBInstanceStatus |-> s]>>))
    /\ UNCHANGED <<args, environ, entry, clients, constructed, credentials,
                   subscription_id, security_group, lookups>>

\* RdsProvider.deploy_cluster(args) after its four helpers: output(data)
deploy_cluster ==
    /\ pc = "rds.deploy_cluster"
    /\ proc' = Return(output(proc, data))
    /\ pc' = "exited"
    /\ UNCHANGED <<args, environ, entry, clients, constructed, credentials,
                   subscription_id, security_group, calls, lookups, status,
                   polls, slept, data>>

\* the three describe commands: helper (client, try: debug, paginate,
\* except: error) and the output of {key: data}
RdsDescribe(type, api, message, key) ==
    /\ \E co \in SdkOutcomes, r \in SdkOutcomes :
         LET g == _get_aws_client(clients, constructed, type, co)
             p1 == debug(proc, args.debug, Str(<<message>>))
         IN IF g.raised
            THEN /\ proc' = Uncaught(proc, SdkError("client"))
                 /\ UNCHANGED <<clients, constructed, calls, data>>
            ELSE /\ clients' = g.clients
                 /\ constructed' = g.built
                 /\ calls' = Append(calls, ApiCall(api, g.client, None,
                                                   r))
                 /\ IF r = "ok"
                    THEN /\ data' = DictSet(EmptyDict, key, PyList(<< >>))
                         /\ proc' = Return(output(p1, data'))
                    ELSE /\ proc' = error(p1, args.debug, SdkError(api))
                         /\ UNCHANGED data
    /\ pc' = "exited"
    /\ UNCHANGED <<args, environ, entry, credentials, subscription_id,
                   security_group, lookups, status, polls, slept>>

\* RdsProvider.get_clusters / _get_clusters
get_clusters ==
    /\ pc = "rds.get_clusters"
    /\ RdsDescribe("rds", "describe_db_instances",
                "Retrieving instance information...", "clusters")

\* RdsProvider.get_vpcs / _get_vpcs
get_vpcs ==
    /\ pc = "rds.get_vpcs"
    /\ RdsDescribe("ec2", "describe_vpcs",
                "Retrieving VPC information...", "vpcs")

\* RdsProvider.get_instance_types / _get_instance_types
get_instance_types ==
    /\ pc = "rds.get_instance_types"
    /\ RdsDescribe("pricing", "get_attribute_values",
                "Retrieving instance type information...", "instance-types")

(* ---- providers/azure.py ------------------------------------------------ *)

\* AzureProvider._get_azure_client(type) on the provider fields (cl, cred,
\* sub), with env the environment and outcome what the client constructor
\* does if it is called.  exited: the function printed and called sys.exit
_get_azure_client(cl, built, cred, sub, env, type, outcome) ==
    LET cred1 == IF cred = None THEN "AzureCliCredential" ELSE cred
    IN IF sub = None /\ "AZURE_SUBSCRIPTION_ID" \notin env
       THEN [clients |-> cl, built |-> built, credentials |-> cred1,
             subscription_id |-> sub, client |-> None, raised |-> FALSE,
             exited |-> TRUE]
       ELSE LET sub1 == IF sub = None THEN "AZURE_SUBSCRIPTION_ID" ELSE sub
                c == [type |-> type, serial |-> Len(built) + 1]
            IN IF type \in DOMAIN cl
               THEN [clients |-> cl, built |-> built, credentials |-> cred1,
                     subscription_id |-> sub1, client |-> cl[type],
                     raised |-> FALSE, exited |-> FALSE]
               ELSE IF outcome = "raise"
               THEN [clients |-> cl, built |-> built, credentials |-> cred1,
                     subscription_id |-> sub1, client |-> None,
                     raised |-> TRUE, exited |-> FALSE]
               ELSE [clients |-> DictSet(cl, "type", c),
                     built |-> Append(built, c), credentials |-> cred1,
                     subscription_id |-> sub1, client |-> c,
                     raised |-> FALSE, exited |-> FALSE]

\* the process after _get_azure_client did not return a client
NoAzureClient(p, g) ==
    IF g.exited
    THEN sys_exit(print(p, <<"The environment variable",
                            "AZURE_SUBSCRIPTION_ID", "is not set">>), 1)
    ELSE Uncaught(p, SdkError("client"))

\* AzureProvider._create_resource_group(args): step 1 of cmd_create_instance
_create_resource_group ==
    /\ pc = "azure._create_resource_group"
    /\ \E co \in SdkOutcomes, r \in SdkOutcomes :
         LET g == _get_azure_client(clients, constructed, credentials,
                                    subscription_id, environ, "resource", co)
             p1 == debug(proc, args.debug,
                         Str(<<"Creating resource group with name:",
                               "resource-group">>))
         IN /\ clients' = g.clients
            /\ constructed' = g.built
            /\ credentials' = g.credentials
            /\ subscription_id' = g.subscription_id
            /\ IF g.exited \/ g.raised
               THEN /\ proc' = NoAzureClient(proc, g)
                    /\ UNCHANGED calls
               ELSE /\ calls' = Append(calls,
                          ApiCall("resource_groups.create_or_update",
                                  g.client, "resource-group", r))
                    /\ proc' = IF r = "ok"
                               THEN p1
                               ELSE Uncaught(p1,
                                      SdkError("resource_groups.create_or_update"))
    /\ pc' = After(proc', "azure._create_azure_instance")
    /\ UNCHANGED <<args, environ, entry, security_group, lookups, status,
                   polls, slept, data>>

GetOutcomes == {"found", "notfound", "raise"}

\* a collision check that lets every lookup result through
svr_is_not_None_skipped(get) == FALSE

\* svr is not None: servers.get returned a server (it raised
\* ResourceNotFoundError otherwise, which leaves svr = None)
svr_is_not_None(get) == get = "found"

\* AzureProvider._create_azure_instance(args): step 2
_create_azure_instance ==
    /\ pc = "azure._create_azure_instance"
    /\ \E co \in SdkOutcomes, get \in GetOutcomes, r \in SdkOutcomes,
          w \in SdkOutcomes :
         LET g == _get_azure_client(clients, constructed, credentials,
                                    subscription_id, environ, "postgresql",
                                    co)
             looked == Append(calls,
                         ApiCall("servers.get", g.client, args.name, get))
             p1 == debug(proc, args.debug,
                         Str(<<"Creating Azure instance:", args.name>>))
             begun == Append(looked,
                        ApiCall("servers.begin_create", g.client, args.name,
                                r))
             waited == Append(begun,
                         ApiCall("servers.begin_create.result", g.client,
                                 args.name, w))
         IN /\ clients' = g.clients
            /\ constructed' = g.built
            /\ credentials' = g.credentials
            /\ subscription_id' = g.subscription_id
            /\ IF g.exited \/ g.raised
               THEN /\ proc' = NoAzureClient(proc, g)
                    /\ UNCHANGED calls
               ELSE IF get = "raise"
               THEN /\ proc' = error(proc, args.debug, SdkError("servers.get"))
                    /\ calls' = looked
               ELSE IF svr_is_not_None(get)
               THEN /\ proc' = error(proc, args.debug,
                                 Str(<<"Azure Database for PostgreSQL instance",
                                       args.name, "already exists.">>))
                    /\ calls' = looked
               ELSE IF r = "raise"
               THEN /\ proc' = error(p1, args.debug,
                                 SdkError("servers.begin_create"))
                    /\ calls' = begun
               ELSE /\ proc' = IF w = "ok"
                               THEN p1
                               ELSE Uncaught(p1,
                                      SdkError("servers.begin_create.result"))
                    /\ calls' = waited
    /\ pc' = After(proc', "azure._create_firewall_rule")
    /\ UNCHANGED <<args, environ, entry, security_group, lookups, status,
                   polls, slept, data>>

\* AzureProvider._create_firewall_rule(args): step 3
_create_firewall_rule ==
    /\ pc = "azure._create_firewall_rule"
    /\ \E co \in SdkOutcomes, primary \in PrimaryOutcomes,
          secondary \in SecondaryOutcomes, rid \in RandomIds,
          r \in SdkOutcomes, w \in SdkOutcomes :
         LET g == _get_azure_client(clients, constructed, credentials,
                                    subscription_id, environ, "postgresql",
                                    co)
             probe == get_my_ip(primary, secondary)
             name == <<"pgacloud", args.name, ReplaceDots(probe.ip), rid>>
             rule == [name |-> name, start_ip_address |-> probe.ip,
                      end_ip_address |-> probe.ip]
             p1 == debug(proc, args.debug,
                         Str(<<"Adding ingress rule for:", probe.ip, "/32">>))
             begun == Append(calls,
                        ApiCall("firewall_rules.begin_create_or_update",
                                g.client, rule, r))
             waited == Append(begun,
                         ApiCall(
                           "firewall_rules.begin_create_or_update.result",
                           g.client, rule, w))
         IN /\ clients' = g.clients
            /\ constructed' = g.built
            /\ credentials' = g.credentials
            /\ subscription_id' = g.subscription_id
            /\ IF g.exited \/ g.raised
               THEN /\ proc' = NoAzureClient(proc, g)
                    /\ UNCHANGED <<calls, lookups>>
               ELSE /\ lookups' = lookups \o probe.log
                    /\ IF r = "raise"
                       THEN /\ proc' = Uncaught(p1,
                               SdkError("firewall_rules.begin_create_or_update"))
                            /\ calls' = begun
                       ELSE /\ proc' = IF w = "ok"
                                       THEN p1
                                       ELSE Uncaught(p1, SdkError(
                             "firewall_rules.begin_create_or_update.result"))
                            /\ calls' = waited
    /\ pc' = After(proc', "azure.cmd_create_instance")
    /\ UNCHANGED <<args, environ, entry, security_group, status, polls,
                   slept, data>>

\* AzureProvider.cmd_create_instance(args) after its three helpers: the
\* Result Map and output(data)
cmd_create_instance ==
    /\ pc = "azure.cmd_create_instance"
    /\ data' = [Id |-> Str(<<"servers", args.name>>),
                ResourceGroupId |-> Str(<<"resource-group">>),
                FirewallRuleId |-> Str(<<"firewallRules", args.name>>),
                Location |-> Str(<<"westeurope">>),
                Hostname |-> Str(<<args.name, "postgres.database.azure.com">>),
                Port |-> PyInt(PgPort),
                Database |-> Str(<<"postgres">>),
                Username |-> Str(<<"postgres">>)]
    /\ proc' = Return(output(proc, data'))
    /\ pc' = "exited"
    /\ UNCHANGED <<args, environ, entry, clients, constructed, credentials,
                   subscription_id, security_group, calls, lookups, status,
                   polls, slept>>

\* AzureProvider.cmd_delete_instance(args) / _delete_azure_instance
cmd_delete_instance ==
    /\ pc = "azure.cmd_delete_instance"
    /\ \E co \in SdkOutcomes, r \in SdkOutcomes, w \in SdkOutcomes :
         LET g == _get_azure_client(clients, constructed, credentials,
                                    subscription_id, environ, "postgresql",
                                    co)
             p1 == debug(proc, args.debug,
                         Str(<<"Deleting Azure instance:", args.name>>))
             begun == Append(calls,
                        ApiCall("servers.begin_delete", g.client, args.name,
                                r))
             waited == Append(begun,
                         ApiCall("servers.begin_delete.result", g.client,
                                 args.name, w))
         IN /\ clients' = g.clients
            /\ constructed' = g.built
            /\ credentials' = g.credentials
            /\ subscription_id' = g.subscription_id
            /\ IF g.exited \/ g.raised
               THEN /\ proc' = NoAzureClient(proc, g)
                    /\ UNCHANGED calls
               ELSE IF r = "raise"
               THEN /\ proc' = error(p1, args.debug,
                                 SdkError("servers.begin_delete"))
                    /\ calls' = begun
               ELSE /\ proc' = IF w = "ok"
                               THEN Return(p1)
                               ELSE Uncaught(p1,
                                      SdkError("servers.begin_delete.result"))
                    /\ calls' = waited
    /\ pc' = "exited"
    /\ UNCHANGED <<args, environ, entry, security_group, lookups, status,
                   polls, slept, data>>

(* ---- providers/starlight.py -------------------------------------------- *)

\* StarlightProvider.deploy_cluster(args)
starlight_deploy_cluster ==
    /\ pc = "starlight.deploy_cluster"
    /\ proc' = Return(print(proc, <<"Deploying Starlight Cluster", args.name,
                                    "using instance type", "type", "...">>))
    /\ pc' = "exited"
    /\ UNCHANGED <<args, environ, entry, clients, constructed, credentials,
                   subscription_id, security_group, calls, lookups, status,
                   polls, slept, data>>

\* StarlightProvider.list_types(args)
list_types ==
    /\ pc = "starlight.list_types"
    /\ proc' = Return(print(proc, <<"Listing Starlight Types...">>))
    /\ pc' = "exited"
    /\ UNCHANGED <<args, environ, entry, clients, constructed, credentials,
                   subscription_id, security_group, calls, lookups, status,
                   polls, slept, data>>

(* ---- the process ------------------------------------------------------- *)

Next ==
    \/ get_args
    \/ execute_command
    \/ call_operation
    \/ _create_security_group
    \/ _add_ingress_rule
    \/ _get_security_group
    \/ _create_rds_instance
    \/ wait_for_completion
    \/ deploy_cluster
    \/ get_clusters
    \/ get_vpcs
    \/ get_instance_types
    \/ _create_resource_group
    \/ _create_azure_instance
    \/ _create_firewall_rule
    \/ cmd_create_instance
    \/ cmd_delete_instance
    \/ starlight_deploy_cluster
    \/ list_types

Spec == Init /\ [][Next]_vars

\* the process is single-threaded and every call returns or raises: a
\* process that can take a step takes it
FairSpec == Spec /\ WF_vars(Next)

TypeOK ==
    /\ pc \in {"start", "exited", "main.execute_command",
               "rds._create_security_group",
               "rds._add_ingress_rule", "rds._get_security_group",
               "rds._create_rds_instance", "rds.wait", "rds.deploy_cluster",
               "rds.get_clusters", "rds.get_vpcs", "rds.get_instance_types",
               "azure._create_resource_group", "azure._create_azure_instance",
               "azure._create_firewall_rule", "azure.cmd_create_instance",
               "azure.cmd_delete_instance", "starlight.deploy_cluster",
               "starlight.list_types"}
    /\ (pc = "exited") = proc.exited
    /\ proc.exit_code \in {0, 1}
    /\ polls \in 0..MaxPolls

(* ======================================================================== *)
(* Properties                                                               *)
(* ======================================================================== *)

\* positions in the call log of the calls of one API
Issued(api) == {i \in 1..Len(calls) : calls[i].api = api}

\* some call of this API raised
Failed(api) == \E i \in Issued(api) : calls[i].outcome \in {"raise", "exists"}

\* some call of this API returned normally
Succeeded(api) == \E i \in Issued(api) : calls[i].outcome = "ok"

\* the APIs of the call log, in the order the calls were issued
ApiSequence == [i \in 1..Len(calls) |-> calls[i].api]

Exited == pc = "exited"

RdsDeploy == args.provider = "rds" /\ args.command = "deploy_cluster"
AzureCreate == args.provider = "azure" /\ args.command = "cmd_create_instance"

\* the fatal-error path ran for message m: debug line if enabled, then the
\* JSON error document as the only standard output, then exit status 1
FatalErrorPath ==
    /\ proc.uncaught = None
    /\ proc.exit_code # 0
    /\ Len(proc.stdout) = 1
    /\ proc.stdout[1].fmt = "json"
    /\ DOMAIN proc.stdout[1].doc = {"error"}
    /\ args.debug =>
         /\ Len(proc.stderr) > 0
         /\ proc.stderr[Len(proc.stderr)].kind = "debug"
         /\ proc.stderr[Len(proc.stderr)].text = proc.stdout[1].doc["error"].v

\* C1: in RDS deploy-cluster, once the step-1 security group exists, every
\* failure of step 3 (the create call raising, or a status poll raising) is
\* followed by an attempted delete of the group and a reported failure.
C1_Step3FailureDeletesGroup ==
    (/\ Exited
     /\ RdsDeploy
     /\ security_group # None
     /\ Failed("create_db_instance") \/ Failed("describe_db_instances"))
    => /\ Issued("delete_security_group") # {}
       /\ FatalErrorPath

\* C2: in RDS deploy-cluster, if step 1 succeeded and step 2 (authorize the
\* ingress rule) fails, a delete of the step-1 security group is attempted
\* before the operation ends in Failed.
C2_Step2FailureDeletesGroup ==
    (/\ Exited
     /\ RdsDeploy
     /\ Succeeded("create_security_group")
     /\ Failed("authorize_security_group_ingress"))
    => /\ Issued("delete_security_group") # {}
       /\ proc.exit_code # 0

\* the API calls that make up the steps of the two create operations
StepApis ==
    {"create_security_group", "authorize_security_group_ingress",
     "describe_security_groups", "create_db_instance",
     "delete_security_group", "resource_groups.create_or_update",
     "servers.get", "servers.begin_create", "servers.begin_create.result",
     "firewall_rules.begin_create_or_update",
     "firewall_rules.begin_create_or_update.result"}

\* the calls that create a resource
CreateApis ==
    {"create_security_group", "authorize_security_group_ingress",
     "create_db_instance", "resource_groups.create_or_update",
     "servers.begin_create", "firewall_rules.begin_create_or_update"}

Step1Api == IF args.provider = "rds"
            THEN "create_security_group"
            ELSE "resource_groups.create_or_update"

\* a step after step 1 failed: one of its calls raised, or an exception
\* left the operation
LaterStepFailed ==
    \/ \E api \in StepApis \ {Step1Api, "delete_security_group"} : Failed(api)
    \/ Failed("describe_db_instances")
    \/ proc.uncaught # None

\* C3: in every run of a create operation, whichever step fails: no step
\* call is issued twice, at most one resource of each kind is created, the
\* step-1 delete is issued at most once, and a run in which step 1 succeeded
\* and a later step failed ends with a non-zero exit code.
C3_NoRetrySingleDelete ==
    (RdsDeploy \/ AzureCreate) =>
        /\ \A api \in StepApis : Cardinality(Issued(api)) <= 1
        /\ \A api \in CreateApis :
             Cardinality({i \in Issued(api) : calls[i].outcome = "ok"}) <= 1
        /\ Cardinality(Issued("delete_security_group")) <= 1
        /\ (Exited /\ Succeeded(Step1Api) /\ LaterStepFailed)
             => proc.exit_code # 0

\* a deploy-cluster run whose create call failed after step 1 succeeded:
\* one delete, exit status 1
C3_Witness ==
    /\ Exited
    /\ RdsDeploy
    /\ Succeeded("create_security_group")
    /\ Failed("create_db_instance")
    /\ Cardinality(Issued("delete_security_group")) = 1
    /\ proc.exit_code = 1

\* C4: no exception propagates past a command: whenever a provider SDK call
\* of a command fails, the process ends through the fatal-error path (debug
\* line if enabled, the JSON {"error": message} on standard output, non-zero
\* exit).
C4_SdkFailureEndsInFatalError ==
    (/\ Exited
     /\ \E i \in 1..Len(calls) :
          /\ calls[i].api # "delete_security_group"
          /\ calls[i].outcome \in {"raise", "exists"})
    => FatalErrorPath

\* a command of a provider ran to its end and the process exited with 0
CommandCompleted ==
    /\ Exited
    /\ proc.exit_code = 0
    /\ args.provider \in Providers
    /\ args.command \in Operations(args.provider)

\* C5: every command of every provider that completes successfully leaves
\* exactly one JSON document, and nothing else, on standard output.
C5_OneJsonDocumentOnSuccess ==
    CommandCompleted =>
        /\ Len(proc.stdout) = 1
        /\ proc.stdout[1].fmt = "json"

\* standard output holds a deploy-cluster Result Map
ResultMapOutput ==
    \E i \in 1..Len(proc.stdout) :
        /\ proc.stdout[i].fmt = "json"
        /\ "clusters" \in DOMAIN proc.stdout[i].doc

\* C6: RDS deploy-cluster outputs its Result Map only if the last polled
\* status is 'available'; nothing is output while the status is transient,
\* and a run whose instance ends in another status outputs no Result Map.
C6_SuccessOnlyWhenAvailable ==
    RdsDeploy =>
        /\ status \in TransientStatuses => proc.stdout = << >>
        /\ ResultMapOutput => status = "available"

\* the command name is one the provider declares (args.command holds the
\* name with '_' once execute_command has run)
Recognized(provider, command) ==
    \E c \in CliCommands(provider) : ReplaceDashes(c) = command

HelpPrinted(tokens) ==
    /\ Exited
    /\ proc.uncaught = None
    /\ proc.stdout = <<[fmt |-> "text", doc |-> tokens]>>
    /\ calls = << >>

\* C7: execute_command prints the top-level help if the provider is absent,
\* calls the provider's help routine if the command is absent or not one of
\* the provider's commands, and otherwise invokes that command's operation;
\* it never fails on the lookup.
C7_DispatchIsTotal ==
    (entry = "execute_command" /\ pc # "start") =>
        IF args.provider = None
        THEN HelpPrinted(<<"usage:", "pgacloud.py">>)
        ELSE IF args.command = None
                \/ ~Recognized(args.provider, args.command)
        THEN HelpPrinted(<<"usage:", "pgacloud.py", args.provider>>)
        ELSE /\ proc.uncaught \notin {"AttributeError", "KeyError"}
             /\ \A i \in 1..Len(proc.stdout) : proc.stdout[i].fmt # "text"

\* the address given to a network-access rule
RuleAddress(call) ==
    IF call.api = "authorize_security_group_ingress"
    THEN call.arg.CidrIp[1]
    ELSE call.arg.start_ip_address

RuleCalls ==
    Issued("authorize_security_group_ingress")
    \cup Issued("firewall_rules.begin_create_or_update")

\* what the most recent probe has to return, read off the lookup log
LastProbeAddress ==
    IF lookups[Len(lookups)].outcome # LookupFailed
    THEN lookups[Len(lookups)].outcome
    ELSE Loopback

ProbesStarted ==
    Cardinality({i \in 1..Len(lookups) : lookups[i].url = PrimaryUrl})

\* C8: get_my_ip never fails and returns the primary answer, else the
\* secondary answer, else 127.0.0.1; the secondary lookup happens only after
\* a failed primary; an operation whose probe failed twice goes on and
\* gives 127.0.0.1 to its ingress rule.
C8_ProbeFallsBack ==
    /\ \A i \in 1..Len(lookups) :
         lookups[i].url = SecondaryUrl =>
            /\ i > 1
            /\ lookups[i - 1] = UrlOpen(PrimaryUrl, LookupFailed)
    /\ \A i \in 1..Len(lookups) :
         lookups[i] = UrlOpen(PrimaryUrl, LookupFailed) =>
            /\ i < Len(lookups)
            /\ lookups[i + 1].url = SecondaryUrl
    /\ \A j \in RuleCalls : RuleAddress(calls[j]) = LastProbeAddress
    /\ (RdsDeploy /\ ProbesStarted = 2) =>
          Issued("authorize_security_group_ingress") # {}
    /\ (AzureCreate /\ ProbesStarted = 1) =>
          Issued("firewall_rules.begin_create_or_update") # {}

\* deploy-cluster went on after both lookups of the second probe failed and
\* asked for the ingress rule 127.0.0.1/32
C8_Witness ==
    /\ RdsDeploy
    /\ Len(lookups) >= 3
    /\ lookups[Len(lookups)] = UrlOpen(SecondaryUrl, LookupFailed)
    /\ lookups[Len(lookups) - 1] = UrlOpen(PrimaryUrl, LookupFailed)
    /\ \E j \in Issued("authorize_security_group_ingress") :
         calls[j].arg.CidrIp = <<Loopback, "/32">>
    /\ pc = "rds._create_rds_instance"

\* a deploy-cluster run ended after create_db_instance reported that the
\* instance already exists
AlreadyExistsRun ==
    /\ Exited
    /\ RdsDeploy
    /\ \E i \in Issued("create_db_instance") : calls[i].outcome = "exists"

\* exit status 1 and, on standard output, only the JSON error whose message
\* ends with '<name> already exists.'
AlreadyExistsReported ==
    /\ proc.exit_code = 1
    /\ Len(proc.stdout) = 1
    /\ proc.stdout[1].fmt = "json"
    /\ DOMAIN proc.stdout[1].doc = {"error"}
    /\ LET m == proc.stdout[1].doc["error"].v
       IN /\ Len(m) >= 2
          /\ m[Len(m) - 1] = args.name
          /\ m[Len(m)] = "already exists."

\* C9 as stated: when create-instance reports that the instance already
\* exists, the run created the security group, never added an ingress rule,
\* deleted the security group, exited 1 and printed the JSON error.
C9_IngressSkipped ==
    AlreadyExistsRun =>
        /\ Issued("create_security_group") # {}
        /\ Issued("authorize_security_group_ingress") = {}
        /\ calls[Len(calls)].api = "delete_security_group"
        /\ AlreadyExistsReported

\* C9 amended: when create-instance reports that the instance already
\* exists, the provider calls of the run are, in order: security group
\* created, ingress rule added, security group described, create-instance
\* (failing), delete of the security group attempted; the process exits 1
\* and standard output holds the JSON error ending '<name> already exists.'.
C9_IngressAddedThenGroupDeleted ==
    AlreadyExistsRun =>
        /\ ApiSequence = <<"create_security_group",
                           "authorize_security_group_ingress",
                           "describe_security_groups", "create_db_instance",
                           "delete_security_group">>
        /\ \A i \in 1..3 : calls[i].outcome = "ok"
        /\ calls[5].arg = security_group
        /\ AlreadyExistsReported

\* an already-exists run whose delete attempt itself failed
C9_Witness ==
    /\ AlreadyExistsRun
    /\ \E i \in Issued("delete_security_group") : calls[i].outcome = "raise"
    /\ proc.exit_code = 1

\* C10: with the debug flag disabled nothing is written to standard error,
\* on the success path and on every failure path of every command.
C10_NoStderrWithoutDebug ==
    (entry = "operation" /\ ~args.debug) => proc.stderr = << >>

\* a create operation ended successfully
CreateSucceeded ==
    /\ Exited
    /\ RdsDeploy \/ AzureCreate
    /\ proc.exit_code = 0

\* the documented fields of the Result Map, the security / firewall
\* identifier under either of its names
DocumentedKeys ==
    {{"Id", "Location", k, "Hostname", "Port", "Database", "Username"} :
        k \in {"FirewallRuleId", "SecurityGroupId"}}

\* C11: every successful instance creation (Azure create-instance, RDS
\* deploy-cluster) outputs a Result Map whose keys are exactly the
\* documented ones (id, location, security/firewall identifier, hostname,
\* port, database name, username), with port 5432.
C11_ResultMapHasDocumentedKeys ==
    CreateSucceeded =>
        /\ Len(proc.stdout) = 1
        /\ DOMAIN proc.stdout[1].doc \in DocumentedKeys
        /\ proc.stdout[1].doc["Port"] = PyInt(PgPort)

\* C12: after a successful create call the RDS wait loop polls the status
\* with one 30-second sleep after each poll, goes on exactly as long as the
\* status is 'creating' or 'backing-up', stops at the first poll with
\* another status and returns that poll's response; it ends once the status
\* leaves the transient states.
C12_WaitLoop ==
    /\ [](slept = SleepSeconds * polls)
    /\ []((pc = "rds.wait" /\ polls > 0) => status \in TransientStatuses)
    /\ [](pc = "rds.deploy_cluster" =>
            /\ status \in Statuses \ TransientStatuses
            /\ data["clusters"].v[1].DBInstanceStatus = status)
    /\ [][polls' # polls =>
            /\ pc = "rds.wait"
            /\ Succeeded("create_db_instance")
            /\ polls' = polls + 1
            /\ slept' = slept + SleepSeconds
            /\ (pc' = "rds.wait") = (status' \in TransientStatuses)
            /\ pc' \in {"rds.wait", "rds.deploy_cluster"}]_vars
    /\ (pc = "rds.wait") ~> (pc # "rds.wait")

\* the loop ended at its third poll, after two transient ones and two
\* sleeps between them
C12_Witness ==
    /\ pc = "rds.deploy_cluster"
    /\ polls = 3
    /\ slept = 3 * SleepSeconds
    /\ status = "available"

\* the outcomes of the servers.get lookups of the run
LookupOutcomes == {calls[j].outcome : j \in Issued("servers.get")}

\* C13: in Azure create-instance the name-collision check precedes the
\* creation and fails fast: if servers.get returns a server or fails with an
\* error other than not-found, begin_create is never issued and the run ends
\* with a fatal error ('... instance <name> already exists.' for an
\* existing server); begin_create is issued only after a not-found lookup.
C13_CollisionCheckFirst ==
    AzureCreate =>
        /\ \A i \in Issued("servers.begin_create") :
             \E j \in Issued("servers.get") :
                j < i /\ calls[j].outcome = "notfound"
        /\ LookupOutcomes \cap {"found", "raise"} # {} =>
             /\ Issued("servers.begin_create") = {}
             /\ Exited
             /\ FatalErrorPath
        /\ "found" \in LookupOutcomes =>
             proc.stdout[1].doc["error"] =
                Str(<<"Azure Database for PostgreSQL instance", args.name,
                      "already exists.">>)

\* a create-instance run that found the server name taken
C13_Witness ==
    /\ AzureCreate
    /\ Exited
    /\ "found" \in LookupOutcomes
    /\ Issued("servers.begin_create") = {}
    /\ proc.exit_code = 1

\* C14: the client cache builds a client lazily per resource type and
\* reuses it: over the requests of one provider instance at most one client
\* is constructed per resource type, and every later request for a type
\* returns the client the first request for that type constructed.
C14_OneClientPerType ==
    /\ \A i, j \in 1..Len(constructed) :
         constructed[i].type = constructed[j].type => i = j
    /\ \A i, j \in 1..Len(calls) :
         calls[i].client.type = calls[j].client.type =>
            calls[i].client = calls[j].client

\* the resource type of the client an API belongs to
ServiceOf(api) ==
    CASE api \in {"create_security_group", "authorize_security_group_ingress",
                  "describe_security_groups", "delete_security_group",
                  "describe_vpcs"} -> "ec2"
      [] api \in {"create_db_instance", "describe_db_instances"} -> "rds"
      [] api = "get_attribute_values" -> "pricing"
      [] api = "resource_groups.create_or_update" -> "resource"
      [] OTHER -> "postgresql"

\* the helper that requests the client an API is called on
HelperOf(api) ==
    CASE api = "create_security_group" -> "_create_security_group"
      [] api = "authorize_security_group_ingress" -> "_add_ingress_rule"
      [] api = "describe_security_groups" -> "_get_security_group"
      [] api \in {"create_db_instance", "describe_db_instances"}
            -> "_create_rds_instance"
      [] api = "resource_groups.create_or_update" -> "_create_resource_group"
      [] api \in {"servers.get", "servers.begin_create",
                  "servers.begin_create.result"} -> "_create_azure_instance"
      [] api \in {"firewall_rules.begin_create_or_update",
                  "firewall_rules.begin_create_or_update.result"}
            -> "_create_firewall_rule"
      [] api \in {"servers.begin_delete", "servers.begin_delete.result"}
            -> "_delete_azure_instance"
      [] OTHER -> api

\* C15 as stated: only the first-created client is cached and it is reused
\* for unrelated resource types: a request for a type B made after a client
\* of another type A was created returns the client built for A.
C15_FirstClientReused ==
    \A i \in 1..Len(calls) :
        ServiceOf(calls[i].api) # constructed[1].type =>
            calls[i].client = constructed[1]

\* C15 amended: the cache stores every entry under the literal key 'type'
\* but is read under the requested resource type, so no request finds a
\* cached client: every request constructs a new client of the requested
\* type, which replaces the one entry under 'type'; a request for a type B
\* made after a client of type A was created returns a new client for B.
C15_EveryRequestBuildsItsClient ==
    /\ DOMAIN clients \subseteq {"type"}
    /\ constructed # << >> =>
         /\ DOMAIN clients = {"type"}
         /\ clients["type"] = constructed[Len(constructed)]
    /\ \A i \in 1..Len(constructed) : constructed[i].serial = i
    /\ \A i \in 1..Len(calls) :
         /\ calls[i].client.type = ServiceOf(calls[i].api)
         /\ \E k \in 1..Len(constructed) : calls[i].client = constructed[k]
    /\ \A i, j \in 1..Len(calls) :
         (/\ calls[i].api # "delete_security_group"
          /\ calls[j].api # "delete_security_group"
          /\ HelperOf(calls[i].api) # HelperOf(calls[j].api))
         => calls[i].client # calls[j].client

\* create_db_instance was called on a new rds client although an ec2
\* client had been cached first
C15_Witness ==
    /\ Len(constructed) >= 2
    /\ constructed[1].type = "ec2"
    /\ \E i \in Issued("create_db_instance") :
         /\ calls[i].client.type = "rds"
         /\ calls[i].client.serial > 1
         /\ clients["type"] = calls[i].client

\* the command the command line names is one its provider declares with
\* add_parser (args.command before or after '-' was replaced by '_')
Declared ==
    /\ args.provider \in Providers
    /\ args.command # None
    /\ \/ args.command \in CliCommands(args.provider)
       \/ Recognized(args.provider, args.command)

\* C16: dispatch never fails on a lookup for a declared command: the
\* provider has the entry points main calls on it (init_args, commands),
\* the command name with '-' replaced by '_' is a key of the provider's
\* command table, its value is callable and is the operation of that
\* command, so the run reaches that operation without an AttributeError,
\* KeyError or TypeError.
C16_DeclaredCommandDispatches ==
    (entry \in {"main", "execute_command"} /\ pc # "start" /\ Declared) =>
        LET command == ReplaceDashes(args.command)
        IN /\ {"init_args", "commands"} \subseteq Attrs(args.provider)
           /\ command \in _commands(args.provider)
           /\ Callable(command)
           /\ command \in Operations(args.provider)
           /\ proc.uncaught \notin {"AttributeError", "KeyError",
                                    "TypeError"}

====
